---- MODULE Spec2Model ----
(***************************************************************************)
(* Model of the tool-orchestration core of mcp-streamlit:                  *)
(*   app/core/mcp_server.py      MCPServer (registry, call_tool)           *)
(*   app/tools/serper_search.py  SerperSearchTool.execute                  *)
(*   app/services/chatbot.py     MCPChatbot.process_message and helpers    *)
(*                                                                         *)
(* Python strings are sequences of tokens (short literal pieces), so that  *)
(* concatenation is \o and "contains" is membership of a token.  Python    *)
(* values that come out of JSON are tagged records [t |-> type, v |-> ..]; *)
(* a Python dict is a TLA+ record, so `"k" in d` is "k" \in DOMAIN d.      *)
(***************************************************************************)
EXTENDS Integers, Sequences, FiniteSets, TLC

\* ------------------------------------------------------------------ bounds
\* longest conversation_history explored (two complete runs)
MaxHistory == 4

\* longest "organic" array in a search payload
MaxOrganic == 2

\* ------------------------------------------------------- values and strings
JNull == [t |-> "null"]

JBool(b) == [t |-> "bool", v |-> b]

JStr(s) == [t |-> "string", v |-> s]

JArr(a) == [t |-> "array", v |-> a]

JObj(d) == [t |-> "object", v |-> d]

JNum(n) == [t |-> "number", v |-> n]

\* Python truthiness of a value
Truthy(j) ==
    CASE j.t = "null" -> FALSE
      [] j.t = "bool" -> j.v
      [] j.t = "string" -> j.v # <<>>
      [] j.t = "number" -> j.v # 0
      [] j.t = "array" -> j.v # <<>>
      [] j.t = "object" -> DOMAIN j.v # {}

\* dict.get(key, default)
Get(d, key, default) == IF key \in DOMAIN d THEN d[key] ELSE default

\* str(x) inside an f-string: a string is itself, None prints as "None"
Fmt(j) ==
    CASE j.t = "string" -> j.v
      [] j.t = "null" -> <<"None">>
      [] j.t = "bool" -> IF j.v THEN <<"True">> ELSE <<"False">>
      [] OTHER -> <<"<repr>">>

RECURSIVE lstrip(_)
lstrip(s) == IF s # <<>> /\ Head(s) = " " THEN lstrip(Tail(s)) ELSE s

RECURSIVE rstrip(_)
rstrip(s) ==
    IF s # <<>> /\ s[Len(s)] = " " THEN rstrip(SubSeq(s, 1, Len(s) - 1)) ELSE s

\* str.strip()
strip(s) == rstrip(lstrip(s))

Contains(s, tok) == \E i \in 1..Len(s) : s[i] = tok

\* the result of evaluating a piece of code: a value, or a raised exception
Ok(x) == [raised |-> FALSE, value |-> x, err |-> <<>>]

Raise(e) == [raised |-> TRUE, value |-> JNull, err |-> e]

\* ------------------------------------------------ MCPServer: the registry
ToolNames == {"search", "calc"}

\* SerperSearchTool, and some other implementation of the MCPTool interface
ToolKinds == {"serper", "custom"}

\* the register_tool calls explored next to the chat runs: the name the chatbot
\* looks up, bound to SerperSearchTool or to a tool of another class
\* (SpecRegistry explores every name with every class)
Registrations == {<<"search", "serper">>, <<"search", "custom">>}

\* self.tools = {}
MCPServer_init == <<>>

HasTool(reg, name) == \E i \in 1..Len(reg) : reg[i].name = name

ToolOf(reg, name) == (CHOOSE i \in 1..Len(reg) : reg[i].name = name)

\* a registry that adds an entry on every call
register_tool_append(reg, name, tool) ==
    Append(reg, [name |-> name, tool |-> tool])

\* a registry where a name registered again moves to the end
register_tool_moves(reg, name, tool) ==
    Append(SelectSeq(reg, LAMBDA e : e.name # name), [name |-> name, tool |-> tool])

\* self.tools[name] = tool   (a dict keeps the position of an existing key)
register_tool(reg, name, tool) ==
    IF HasTool(reg, name)
    THEN [i \in 1..Len(reg) |->
            IF reg[i].name = name THEN [name |-> name, tool |-> tool] ELSE reg[i]]
    ELSE Append(reg, [name |-> name, tool |-> tool])

\* tool.get_schema(): SerperSearchTool describes the search tool; a tool of
\* another class describes itself
get_schema(tool) ==
    IF tool = "serper"
    THEN [name |-> "search", description |-> "Search the web using Serper API",
          required |-> <<"query">>, num_results_default |-> 5]
    ELSE [name |-> "custom", description |-> "", required |-> <<>>,
          num_results_default |-> 0]

\* list_tools(): one entry per item of self.tools, in the dict's order
list_tools(reg) ==
    [i \in 1..Len(reg) |-> [name |-> reg[i].name, schema |-> get_schema(reg[i].tool)]]

\* ---------------------------------------------- the search endpoint's replies
Entry1 == JObj([title |-> JStr(<<"t1">>), snippet |-> JStr(<<"s1">>), link |-> JStr(<<"l1">>)])

\* an entry without snippet and link
Entry2 == JObj([title |-> JStr(<<"t2">>)])

\* an entry without title
Entry3 == JObj([snippet |-> JStr(<<"s3">>), link |-> JStr(<<"l3">>)])

EntryAt(i) == IF i % 2 = 1 THEN Entry1 ELSE Entry2

Organic(n) == JArr([i \in 1..n |-> EntryAt(i)])

KG == JObj([title |-> JStr(<<"kt">>), description |-> JStr(<<"kd">>)])

\* bodies that response.json() can return for a 200 reply
WellFormedBodies ==
    {JObj([organic |-> Organic(n)]) : n \in 0..MaxOrganic}
    \cup {JObj([organic |-> Organic(MaxOrganic), knowledgeGraph |-> KG])}
    \cup {JObj([knowledgeGraph |-> JObj([title |-> JStr(<<"kt">>)])])}
    \cup {JObj([error |-> JStr(<<"quota">>)])}

MalformedBodies ==
    { JNull,
      JObj([organic |-> JNull]),
      JObj([organic |-> JArr(<<JNull>>)]),
      JObj([knowledgeGraph |-> JNull]) }

Bodies == WellFormedBodies \cup MalformedBodies

\* what happens to the one POST of SerperSearchTool.execute (or, for a tool
\* of another class, to its execute): a 200 reply with a JSON body, or a failure
HttpFailures == {"timeout", "status 503", "transport"}

\* the bodies explored in the chat runs (SpecFormat formats every body)
RunBodies ==
    WellFormedBodies \cup {JObj([organic |-> JNull]), JObj([knowledgeGraph |-> JNull])}

ToolOutcomes ==
    [kind : {"ok"}, detail : {"200"}, body : RunBodies]
    \cup [kind : {"fail"}, detail : HttpFailures, body : {JNull}]

\* keyword arguments of a call_tool call
QueryValues == {JStr(<<"q">>), JNull}

KwargsSet ==
    {[query |-> q] : q \in QueryValues}
    \cup {[query |-> JStr(<<"q">>), num_results |-> JNum(3)]}
    \cup {[num_results |-> JNum(3)]}
    \cup {[query |-> JStr(<<"q">>), page |-> JNum(2)]}
    \cup {<<>>}

\* binding **kwargs to execute(self, query, num_results=5)
BindError(kwargs) ==
    IF "query" \notin DOMAIN kwargs
    THEN <<"execute() missing 1 required positional argument: 'query'">>
    ELSE IF ~(DOMAIN kwargs \subseteq {"query", "num_results"})
         THEN <<"execute() got an unexpected keyword argument">>
         ELSE <<>>

\* execute with one automatic retry of a failed POST
SerperSearchTool_execute_retry(kwargs, out) ==
    IF BindError(kwargs) # <<>>
    THEN [res |-> Raise(BindError(kwargs)), posts |-> 0]
    ELSE IF out.kind = "ok"
         THEN [res |-> Ok(out.body), posts |-> 1]
         ELSE [res |-> Ok(JObj([error |-> JStr(<<"Search failed: ", out.detail>>)])),
               posts |-> 2]

\* SerperSearchTool.execute: the result, and the number of POSTs it sent
SerperSearchTool_execute(kwargs, out) ==
    IF BindError(kwargs) # <<>>
    THEN [res |-> Raise(BindError(kwargs)), posts |-> 0]
    ELSE IF out.kind = "ok"
         THEN [res |-> Ok(out.body), posts |-> 1]
         ELSE [res |-> Ok(JObj([error |-> JStr(<<"Search failed: ", out.detail>>)])),
               posts |-> 1]

\* a tool of another class: returns a value or raises; it sends nothing to the
\* search endpoint
CustomTool_execute(kwargs, out) ==
    IF out.kind = "ok"
    THEN [res |-> Ok(out.body), posts |-> 0]
    ELSE [res |-> Raise(<<out.detail>>), posts |-> 0]

execute(tool, kwargs, out) ==
    IF tool = "serper" THEN SerperSearchTool_execute(kwargs, out)
    ELSE CustomTool_execute(kwargs, out)

\* call_tool without the membership test: the lookup self.tools[name] fails
\* inside the try block
call_tool_nolookup(reg, name, kwargs, out) ==
    IF ~HasTool(reg, name)
    THEN [raised |-> FALSE, env |-> [error |-> <<"Tool execution failed: ", name>>],
          executes |-> 0, posts |-> 0]
    ELSE LET r == execute(reg[ToolOf(reg, name)].tool, kwargs, out) IN
         IF r.res.raised
         THEN [raised |-> FALSE,
               env |-> [error |-> <<"Tool execution failed: ">> \o r.res.err],
               executes |-> 1, posts |-> r.posts]
         ELSE [raised |-> FALSE,
               env |-> [success |-> TRUE, result |-> r.res.value],
               executes |-> 1, posts |-> r.posts]

\* call_tool without the try block: an exception of execute reaches the caller
call_tool_notry(reg, name, kwargs, out) ==
    IF ~HasTool(reg, name)
    THEN [raised |-> FALSE, env |-> [error |-> <<"Tool '", name, "' not found">>],
          executes |-> 0, posts |-> 0]
    ELSE LET r == execute(reg[ToolOf(reg, name)].tool, kwargs, out) IN
         IF r.res.raised
         THEN [raised |-> TRUE, env |-> [error |-> <<>>],
               executes |-> 1, posts |-> r.posts]
         ELSE [raised |-> FALSE,
               env |-> [success |-> TRUE, result |-> r.res.value],
               executes |-> 1, posts |-> r.posts]

\* MCPServer.call_tool: the envelope, whether the call raised to its caller,
\* and how many execute calls and POSTs it made
call_tool(reg, name, kwargs, out) ==
    IF ~HasTool(reg, name)
    THEN [raised |-> FALSE, env |-> [error |-> <<"Tool '", name, "' not found">>],
          executes |-> 0, posts |-> 0]
    ELSE LET r == execute(reg[ToolOf(reg, name)].tool, kwargs, out) IN
         IF r.res.raised
         THEN [raised |-> FALSE,
               env |-> [error |-> <<"Tool execution failed: ">> \o r.res.err],
               executes |-> 1, posts |-> r.posts]
         ELSE [raised |-> FALSE,
               env |-> [success |-> TRUE, result |-> r.res.value],
               executes |-> 1, posts |-> r.posts]

\* ---------------------------------------------------- the oracle's replies
\* one chat.completions.create call: it raises, or replies with a message
\* whose content is None or a string
OracleErrors == {<<"Request timed out.">>}

RaiseOutcomes == [kind : {"raise"}, err : OracleErrors, content : {JNull}]

Reply(c) == [kind |-> "reply", err |-> <<>>, content |-> c]

ChatTexts == {<<" ", "Hi there!", " ">>, <<" ">>}

ChatOutcomes == RaiseOutcomes \cup {Reply(JNull)} \cup {Reply(JStr(c)) : c \in ChatTexts}

\* the JSON documents the classification oracle may produce, as json.loads
\* decodes them
JsonDocs ==
    [ d \in { "{\"needs_search\": false, \"search_query\": null, \"reasoning\": \"r\"}",
              "{\"needs_search\": true, \"search_query\": \"latest AI news 2024\", \"reasoning\": \"r\"}",
              "{\"needs_search\": true, \"search_query\": null, \"reasoning\": \"r\"}",
              "{\"needs_search\": true}",
              "{\"reasoning\": \"r\"}",
              "{\"needs_search\": \"yes\", \"search_query\": \"q\"}",
              "{\"needs_search\": 0, \"search_query\": \"q\"}",
              "[]",
              "null" } |->
        CASE d = "{\"needs_search\": false, \"search_query\": null, \"reasoning\": \"r\"}" ->
                JObj([needs_search |-> JBool(FALSE), search_query |-> JNull,
                      reasoning |-> JStr(<<"r">>)])
          [] d = "{\"needs_search\": true, \"search_query\": \"latest AI news 2024\", \"reasoning\": \"r\"}" ->
                JObj([needs_search |-> JBool(TRUE),
                      search_query |-> JStr(<<"latest AI news 2024">>),
                      reasoning |-> JStr(<<"r">>)])
          [] d = "{\"needs_search\": true, \"search_query\": null, \"reasoning\": \"r\"}" ->
                JObj([needs_search |-> JBool(TRUE), search_query |-> JNull,
                      reasoning |-> JStr(<<"r">>)])
          [] d = "{\"needs_search\": true}" -> JObj([needs_search |-> JBool(TRUE)])
          [] d = "{\"reasoning\": \"r\"}" -> JObj([reasoning |-> JStr(<<"r">>)])
          [] d = "{\"needs_search\": \"yes\", \"search_query\": \"q\"}" ->
                JObj([needs_search |-> JStr(<<"yes">>), search_query |-> JStr(<<"q">>)])
          [] d = "{\"needs_search\": 0, \"search_query\": \"q\"}" ->
                JObj([needs_search |-> JNum(0), search_query |-> JStr(<<"q">>)])
          [] d = "[]" -> JArr(<<>>)
          [] d = "null" -> JNull ]

\* json.loads(content): a JSONDecodeError unless the text is one JSON document
json_loads(s) ==
    IF Len(s) = 1 /\ s[1] \in DOMAIN JsonDocs
    THEN Ok(JsonDocs[s[1]])
    ELSE Raise(<<"JSONDecodeError">>)

ClassifyTexts ==
    {<<d>> : d \in DOMAIN JsonDocs}
    \cup { <<" ", "{\"reasoning\": \"r\"}", " ">>,
           <<"Sure, a search is needed.">> }

ClassifyOutcomes ==
    RaiseOutcomes \cup {Reply(JNull)} \cup {Reply(JStr(c)) : c \in ClassifyTexts}

NoStrip == <<"'NoneType' object has no attribute 'strip'">>

\* response.choices[0].message.content.strip()
content_strip(out) ==
    IF out.kind = "raise" THEN Raise(out.err)
    ELSE IF out.content.t = "null" THEN Raise(NoStrip)
    ELSE Ok(strip(out.content.v))

\* ------------------------------------------------------------ MCPChatbot
Messages == {<<"Hello, how are you?">>, <<"Latest news about AI">>}

Turn(role, content) == [role |-> role, content |-> content]

\* the fallback decision of _detect_search_intent_with_openai
DefaultDecision(reason) ==
    [needs_search |-> JBool(FALSE), search_query |-> JNull, reasoning |-> JStr(reason)]

\* the system instructions of the classification and conversational oracles
IntentPrompt == "You are an intent detection system for a chatbot that can search the web."

ChatPrompt == "You are a helpful chatbot that can search the web for information."

\* a message list built from the whole history
oracle_messages_whole(system_prompt, history, message) ==
    <<Turn("system", <<system_prompt>>)>> \o history \o <<Turn("user", message)>>

\* the message list sent to the classification and conversational oracles
oracle_messages(system_prompt, history, message) ==
    <<Turn("system", <<system_prompt>>)>>
        \o SubSeq(history, 1, Len(history) - 1)
        \o <<Turn("user", message)>>

\* _detect_search_intent_with_openai: the decision (a dict) it returns
detect_search_intent(out) ==
    LET c == content_strip(out) IN
    IF c.raised
    THEN Ok(DefaultDecision(<<"OpenAI API error: ">> \o c.err))
    ELSE LET p == json_loads(c.value) IN
         IF p.raised
         THEN Ok(DefaultDecision(<<"Failed to parse OpenAI response as JSON">>))
         ELSE IF p.value.t # "object"
              THEN Ok(DefaultDecision(<<"OpenAI API error: ", "object has no attribute 'get'">>))
              ELSE Ok(p.value.v)

\* the default of the lookup turned around: a decision that says nothing
\* about needs_search leads to a search
needs_search_default_true(d) == Truthy(Get(d, "needs_search", JBool(TRUE)))

\* intent_result.get("needs_search", False), as the `if` takes it
needs_search(d) == Truthy(Get(d, "needs_search", JBool(FALSE)))

Trouble == <<"I'm having trouble connecting to my AI services. Please try again in a moment. Error: ">>

\* _generate_openai_response without the except branch
generate_openai_response_raises(out) ==
    LET c == content_strip(out) IN
    IF c.raised THEN Raise(c.err) ELSE Ok(c.value)

\* _generate_openai_response: the string it returns
generate_openai_response(out) ==
    LET c == content_strip(out) IN
    IF c.raised THEN Ok(Trouble \o c.err) ELSE Ok(c.value)

\* the keys k for which `k in search_data` is true
Keys(j) == IF j.t = "object" THEN DOMAIN j.v ELSE {}

NumStr(i) == <<"1", "2", "3", "4", "5", "6", "7", "8">>[i]

\* search_data["organic"][:cap]
\* a slice that keeps only the top result
TopResults_one(organic, cap) ==
    SubSeq(organic.v, 1, IF Len(organic.v) = 0 THEN 0 ELSE 1)

TopResults(organic, cap) ==
    SubSeq(organic.v, 1, IF Len(organic.v) < cap THEN Len(organic.v) ELSE cap)

FormatEntry(i, result) ==
    <<"**", NumStr(i), ". ">> \o Fmt(Get(result.v, "title", JStr(<<"No title">>)))
        \o <<"**", "\n">> \o Fmt(Get(result.v, "snippet", JStr(<<"No description">>)))
        \o <<"\n", "link: ">> \o Fmt(Get(result.v, "link", JStr(<<>>))) \o <<"\n\n">>

RECURSIVE FormatEntries(_, _)
FormatEntries(results, i) ==
    IF i > Len(results) THEN <<>>
    ELSE FormatEntry(i, results[i]) \o FormatEntries(results, i + 1)

\* the exception, if any, that reading the payload raises (<<>> if none)
PayloadError(search_data) ==
    IF search_data.t = "null"
    THEN <<"argument of type 'NoneType' is not iterable">>
    ELSE IF "organic" \in Keys(search_data) /\ search_data.v.organic.t # "array"
    THEN <<"'NoneType' object is not subscriptable">>
    ELSE IF "organic" \in Keys(search_data)
            /\ \E i \in 1..Len(search_data.v.organic.v) :
                   search_data.v.organic.v[i].t # "object"
    THEN <<"'NoneType' object has no attribute 'get'">>
    ELSE IF "knowledgeGraph" \in Keys(search_data)
            /\ search_data.v.knowledgeGraph.t # "object"
    THEN <<"argument of type 'NoneType' is not iterable">>
    ELSE <<>>

\* number of organic results rendered and summarized (chatbot.py)
ResultCap == 5

\* _format_search_response: the raw block, or the exception it raises
format_search_response(search_data) ==
    IF search_data.t = "null" THEN Raise(PayloadError(search_data))
    ELSE IF "error" \in Keys(search_data)
    THEN Ok(<<"Search error: ">> \o Fmt(search_data.v.error))
    ELSE IF PayloadError(search_data) # <<>> THEN Raise(PayloadError(search_data))
    ELSE Ok(<<"Here's what I found:", "\n\n">>
            \o (IF "organic" \in Keys(search_data)
                THEN FormatEntries(TopResults(search_data.v.organic, ResultCap), 1)
                ELSE <<>>)
            \o (IF "knowledgeGraph" \in Keys(search_data)
                   /\ "description" \in DOMAIN search_data.v.knowledgeGraph.v
                THEN <<"**Quick Answer:** ">>
                        \o Fmt(search_data.v.knowledgeGraph.v.description) \o <<"\n\n">>
                ELSE <<>>))

\* number of organic results rendered by the copy of the class in app.py
AppResultCap == 3

\* _format_search_response of app.py: the raw block, or the exception it raises
app_format_search_response(search_data) ==
    IF search_data.t = "null" THEN Raise(PayloadError(search_data))
    ELSE IF "error" \in Keys(search_data)
    THEN Ok(<<"Search error: ">> \o Fmt(search_data.v.error))
    ELSE IF PayloadError(search_data) # <<>> THEN Raise(PayloadError(search_data))
    ELSE Ok(<<"Here's what I found:", "\n\n">>
            \o (IF "organic" \in Keys(search_data)
                THEN FormatEntries(TopResults(search_data.v.organic, AppResultCap), 1)
                ELSE <<>>)
            \o (IF "knowledgeGraph" \in Keys(search_data)
                   /\ "description" \in DOMAIN search_data.v.knowledgeGraph.v
                THEN <<"**Quick Answer:** ">>
                        \o Fmt(search_data.v.knowledgeGraph.v.description) \o <<"\n\n">>
                ELSE <<>>))

SimplifyEntry(result) ==
    [title |-> Get(result.v, "title", JStr(<<"No title">>)),
     snippet |-> Get(result.v, "snippet", JStr(<<"No description">>)),
     link |-> Get(result.v, "link", JStr(<<>>))]

\* simplified_results of _summarize_search_results
simplified_results(search_data) ==
    (IF "organic" \in Keys(search_data)
     THEN LET top == TopResults(search_data.v.organic, ResultCap) IN
          [i \in 1..Len(top) |-> SimplifyEntry(top[i])]
     ELSE <<>>)
    \o (IF "knowledgeGraph" \in Keys(search_data)
           /\ "description" \in DOMAIN search_data.v.knowledgeGraph.v
        THEN <<[title |-> Get(search_data.v.knowledgeGraph.v, "title",
                              JStr(<<"Knowledge Graph">>)),
                snippet |-> search_data.v.knowledgeGraph.v.description,
                link |-> Get(search_data.v.knowledgeGraph.v, "link", JStr(<<>>))]>>
        ELSE <<>>)

\* number of organic results summarized by the copy of the class in app.py
AppSummaryCap == 5

\* simplified_results of _summarize_search_results of app.py
app_simplified_results(search_data) ==
    (IF "organic" \in Keys(search_data)
     THEN LET top == TopResults(search_data.v.organic, AppSummaryCap) IN
          [i \in 1..Len(top) |-> SimplifyEntry(top[i])]
     ELSE <<>>)
    \o (IF "knowledgeGraph" \in Keys(search_data)
           /\ "description" \in DOMAIN search_data.v.knowledgeGraph.v
        THEN <<[title |-> Get(search_data.v.knowledgeGraph.v, "title",
                              JStr(<<"Knowledge Graph">>)),
                snippet |-> search_data.v.knowledgeGraph.v.description,
                link |-> Get(search_data.v.knowledgeGraph.v, "link", JStr(<<>>))]>>
        ELSE <<>>)

NoSummary == <<"I found some search results but ", "couldn't", " generate a summary. Please see the raw results below.">>

\* _summarize_search_results: the string it returns, and the number of oracle
\* calls it makes
summarize_search_results(search_data, out) ==
    IF PayloadError(search_data) # <<>>
    THEN [text |-> NoSummary, calls |-> 0]
    ELSE LET c == content_strip(out) IN
         IF c.raised
         THEN [text |-> NoSummary, calls |-> 1]
         ELSE [text |-> <<"**AI Summary:**", "\n\n">> \o c.value, calls |-> 1]

RawHeader == <<"\n\n", "**Raw Search Results:**", "\n\n">>

Sorry == <<"Sorry, I ", "couldn't", " search for that. Error: ">>

\* ----------------------------------------------------- StreamlitLogHandler
\* the entry emit stores for the n-th record of the process (the timestamp,
\* a wall-clock reading, is left out)
LogEntry(n) == [level |-> "INFO", message |-> n]

\* number of entries emit keeps
LogCap == 100

\* an emit that drops the newest entry of a full buffer
emit_popnewest(logs, entry) ==
    LET appended == Append(logs, entry) IN
    IF Len(appended) > LogCap
    THEN SubSeq(appended, 1, Len(appended) - 1)
    ELSE appended

\* emit(record): self.logs.append(entry); if len(self.logs) > 100: self.logs.pop(0)
emit(logs, entry) ==
    LET appended == Append(logs, entry) IN
    IF Len(appended) > LogCap THEN Tail(appended) ELSE appended

\* ------------------------------------------------------- Streamlit sessions
\* process_message(m) as a whole: the string it returns, or the exception it
\* raises, for the outcomes run.classify, run.tool and run.chat of its calls
process_message_result(reg, m, run) ==
    LET d == detect_search_intent(run.classify).value IN
    IF ~needs_search(d)
    THEN generate_openai_response(run.chat)
    ELSE LET r == call_tool(reg, "search",
                            [query |-> Get(d, "search_query", JStr(m))], run.tool)
         IN IF r.raised THEN Raise(<<"call_tool raised">>)
            ELSE IF Get(r.env, "success", FALSE)
            THEN LET f == format_search_response(r.env.result) IN
                 IF f.raised THEN Raise(f.err)
                 ELSE Ok(summarize_search_results(r.env.result, run.chat).text
                             \o RawHeader \o f.value)
            ELSE Ok(Sorry \o Get(r.env, "error", <<"Unknown error">>))

\* the browser sessions of the deployment
Sessions == {1, 2}

\* the outcomes of the calls of a run explored by SpecSessions
SessionRuns ==
    [classify : {Reply(JStr(<<"{\"needs_search\": true}">>)),
                 Reply(JStr(<<"{\"reasoning\": \"r\"}">>))},
     tool : {[kind |-> "ok", detail |-> "200", body |-> JObj([organic |-> Organic(1)])],
             [kind |-> "ok", detail |-> "200", body |-> JObj([organic |-> JNull])]},
     chat : {Reply(JStr(<<" ", "Hi there!", " ">>))} \cup RaiseOutcomes]

\* longest conversation_history at which a session takes another prompt
MaxSessionHistory == 2

\* one st.session_state for every session
session_key_global(s) == 1

\* st.session_state of the script run of session s
session_key(s) == s

\* st.session_state after the "Initialize session state" block: mcp_server
\* and chatbot are None (0) or refer to an object; prompt is the prompt being
\* processed and response the last response shown
NoSession ==
    [messages |-> <<>>, mcp_server |-> 0, chatbot |-> 0,
     pc |-> "idle", prompt |-> <<>>, response |-> <<>>]

\* serper_api_key, openai_api_key: the keys present in the environment;
\* servers, chatbots: the MCPServer and MCPChatbot objects created so far;
\* last: the latest event, with the session whose script ran
NoSess(serper_api_key, openai_api_key) ==
    [serper_api_key |-> serper_api_key,
     openai_api_key |-> openai_api_key,
     servers |-> <<>>,
     chatbots |-> <<>>,
     state |-> [k \in Sessions |-> NoSession],
     last |-> [session |-> 0, event |-> "none", prompt |-> <<>>]]

\* ------------------------------------------------------------- auth.yaml
\* the admin sessions that may call add_user
AdminSessions == {1, 2}

\* the usernames entered in the "Add User" form, and the passwords
NewUsernames == {"alice", "bob"}

Passwords == {"pw1", "pw2"}

\* the marker of a username that the file does not hold
NoUser == [absent |-> TRUE]

\* {'name': name, 'email': email, 'password': hashed_password}
UserEntry(username, password) ==
    [name |-> username, email |-> username, password |-> <<"hash", password>>]

\* config['credentials']['usernames'] of the file as deployed
InitialUsernames ==
    [u \in NewUsernames \cup {"admin"} |->
        IF u = "admin"
        THEN [name |-> "Admin User", email |-> "admin@example.com",
              password |-> <<"hash", "admin">>]
        ELSE NoUser]

NoProc == [pc |-> "idle", username |-> "", config |-> <<>>]

\* file: what config/auth.yaml holds (nothing between open(.., 'w') and the
\* dump); procs: the add_user call of each admin session; added: the users
\* for which add_user returned True; overlapped: two calls have interleaved
NoAuth ==
    [file |-> [truncated |-> FALSE, usernames |-> InitialUsernames],
     procs |-> [p \in AdminSessions |-> NoProc],
     added |-> {},
     calls |-> 0,
     overlapped |-> FALSE]

\* number of add_user calls explored by SpecAuth
MaxAddCalls == 3

\* number of register_tool calls explored by SpecRegistry
MaxRegs == 4

\* number of emit calls explored by SpecLog
MaxEmits == 110

\* longest organic array formatted by SpecFormat
MaxFormat == 6

\* the payloads formatted by SpecFormat: every organic array of up to
\* MaxFormat entries, alone or with a knowledge graph, and every other body
FormatPayloads ==
    LET arrays == UNION {[1..n -> {Entry1, Entry2, Entry3}] : n \in 0..MaxFormat} IN
    {JObj([organic |-> JArr(a)]) : a \in arrays}
    \cup {JObj([organic |-> JArr(a), knowledgeGraph |-> KG]) : a \in arrays}
    \cup Bodies

\* ------------------------------------------------------------------ state
VARIABLES
    tools,                  \* MCPServer.tools, in insertion order
    conversation_history,   \* MCPChatbot.conversation_history
    pc,                     \* where the process_message run (or a direct call_tool) stands
    message,                \* process_message: its argument
    intent_result,          \* process_message: the classifier's decision
    search_query,           \* process_message: the query given to the tool
    result,                 \* process_message: the envelope call_tool returned
    raw_response,           \* process_message: the formatted raw block
    calls,                  \* calls made by the current run
    seen,                   \* what the oracles and the endpoint did in the current run
    h0,                     \* conversation_history when the current run started
    ret,                    \* how the run ended: the returned string, or an exception
    api,                    \* a direct call of MCPServer.call_tool and its outcome
    messages,               \* st.session_state.messages of app.py
    reg_calls,              \* the register_tool calls made so far (SpecRegistry)
    fx,                     \* a payload and what the formatters make of it (SpecFormat)
    sess,                   \* the Streamlit sessions and their objects (SpecSessions)
    handler,                \* the StreamlitLogHandler (SpecLog)
    auth                    \* config/auth.yaml and the add_user calls (SpecAuth)

vars == <<tools, conversation_history, pc, message, intent_result, search_query,
          result, raw_response, calls, seen, h0, ret, api, messages, reg_calls, fx,
          sess, handler, auth>>

NoCalls == [classify |-> 0, call_tool |-> 0, execute |-> 0, posts |-> 0,
            summarize |-> 0, converse |-> 0]

None == [kind |-> "none"]

\* log: the awaited calls of the run (the two oracles' and the tool's
\* execute), each at its start and at its return;
\* sent_classify, sent_converse: the message lists given to the two oracles
NoSeen == [classify |-> None, tool |-> None, summarize |-> None, converse |-> None,
           log |-> <<>>, sent_classify |-> <<>>, sent_converse |-> <<>>]

NoFx == [data |-> JNull, chatbot |-> <<>>, app |-> <<>>,
         chatbot_summary |-> <<>>, app_summary |-> <<>>]

NoRet == [status |-> "none", response |-> <<>>]

NoApi == [name |-> "", kwargs |-> <<>>, out |-> None, r |-> None]

NoResult == [none |-> TRUE]

\* the locals of process_message before a run
Locals0 ==
    /\ message = <<>>
    /\ intent_result = <<>>
    /\ search_query = JNull
    /\ result = NoResult
    /\ raw_response = <<>>
    /\ calls = NoCalls
    /\ seen = NoSeen
    /\ ret = NoRet

\* StreamlitLogHandler(): self.logs = []; emitted counts the emit calls
StreamlitLogHandler_init == [logs |-> <<>>, emitted |-> 0]

\* MCPServer() and MCPChatbot(mcp_server); the handler is new and the
\* credentials file holds the administrator
InitChat ==
    /\ tools = MCPServer_init
    /\ conversation_history = <<>>
    /\ pc = "idle"
    /\ Locals0
    /\ h0 = <<>>
    /\ api = NoApi
    /\ messages = <<>>
    /\ reg_calls = <<>>
    /\ fx = NoFx
    /\ handler = StreamlitLogHandler_init
    /\ auth = NoAuth

\* the process has both API keys in its environment
Init == InitChat /\ sess = NoSess(TRUE, TRUE)

\* mcp_server.register_tool(name, tool); the server is set up before the
\* chatbot that uses it takes its first message
RegisterTool(name, tool) ==
    /\ pc = "idle"
    /\ conversation_history = <<>>
    /\ tools' = register_tool(tools, name, tool)
    /\ UNCHANGED <<conversation_history, pc, message, intent_result, search_query,
                   result, raw_response, calls, seen, h0, ret, api>>
    /\ UNCHANGED <<messages, reg_calls, fx, sess, handler, auth>>

\* a caller other than the chatbot awaits mcp_server.call_tool(name, **kwargs);
\* call_tool reads self.tools only, so it is explored before the chat starts
CallTool(name, kwargs, out) ==
    /\ pc = "idle"
    /\ conversation_history = <<>>
    /\ api' = [name |-> name, kwargs |-> kwargs, out |-> out,
               r |-> call_tool(tools, name, kwargs, out)]
    /\ pc' = "api_done"
    /\ UNCHANGED <<tools, conversation_history, message, intent_result, search_query,
                   result, raw_response, calls, seen, h0, ret>>
    /\ UNCHANGED <<messages, reg_calls, fx, sess, handler, auth>>

\* the caller has taken the envelope
ApiReturn ==
    /\ pc = "api_done"
    /\ api' = NoApi
    /\ pc' = "idle"
    /\ UNCHANGED <<tools, conversation_history, message, intent_result, search_query,
                   result, raw_response, calls, seen, h0, ret>>
    /\ UNCHANGED <<messages, reg_calls, fx, sess, handler, auth>>

\* st.session_state.messages.append({"role": role, "content": content})
session_append(msgs, role, content) == Append(msgs, Turn(role, content))

\* a run that starts the history afresh with its user turn
Start_fresh(m) ==
    /\ pc = "idle"
    /\ Len(conversation_history) + 2 <= MaxHistory
    /\ messages' = session_append(messages, "user", m)
    /\ h0' = conversation_history
    /\ conversation_history' = <<Turn("user", m)>>
    /\ message' = m
    /\ pc' = "classify"
    /\ seen' = [seen EXCEPT
                   !.log = <<"classify:start">>,
                   !.sent_classify =
                       oracle_messages(IntentPrompt, conversation_history', m)]
    /\ UNCHANGED <<tools, intent_result, search_query, result, raw_response, calls,
                   ret, api, reg_calls, fx, sess, handler, auth>>

\* a run that may start while another one is in flight
Start_reentrant(m) ==
    /\ pc \in {"idle", "classify", "call_tool", "summarize", "converse"}
    /\ Len(conversation_history) + 2 <= MaxHistory
    /\ messages' = session_append(messages, "user", m)
    /\ h0' = conversation_history
    /\ conversation_history' = Append(conversation_history, Turn("user", m))
    /\ message' = m
    /\ pc' = "classify"
    /\ seen' = [seen EXCEPT
                   !.log = <<"classify:start">>,
                   !.sent_classify =
                       oracle_messages(IntentPrompt, conversation_history', m)]
    /\ UNCHANGED <<tools, intent_result, search_query, result, raw_response, calls,
                   ret, api, reg_calls, fx, sess, handler, auth>>

\* main of app.py takes the prompt m from st.chat_input, appends it to the UI
\* list and runs process_message(m), here up to the await of the
\* classification oracle
Start(m) ==
    /\ pc = "idle"
    /\ Len(conversation_history) + 2 <= MaxHistory
    /\ messages' = session_append(messages, "user", m)
    /\ h0' = conversation_history
    /\ conversation_history' = Append(conversation_history, Turn("user", m))
    /\ message' = m
    /\ pc' = "classify"
    /\ seen' = [seen EXCEPT
                   !.log = <<"classify:start">>,
                   !.sent_classify =
                       oracle_messages(IntentPrompt, conversation_history', m)]
    /\ UNCHANGED <<tools, intent_result, search_query, result, raw_response, calls,
                   ret, api, reg_calls, fx, sess, handler, auth>>

\* process_message ends: the assistant turn is appended and the string returned
Finish(response) ==
    /\ conversation_history' = Append(conversation_history, Turn("assistant", response))
    /\ ret' = [status |-> "returned", response |-> response]
    /\ pc' = "done"

\* an exception leaves process_message
Propagate(err) ==
    /\ ret' = [status |-> "raised", response |-> err]
    /\ pc' = "done"
    /\ UNCHANGED conversation_history

\* a classification step that starts the summarization together with the search
Classified_fanout(out) ==
    /\ pc = "classify"
    /\ LET d == detect_search_intent(out).value IN
       /\ intent_result' = d
       /\ IF needs_search(d)
          THEN /\ search_query' = Get(d, "search_query", JStr(message))
               /\ pc' = "call_tool"
          ELSE /\ pc' = "converse"
               /\ UNCHANGED search_query
    /\ calls' = [calls EXCEPT !.classify = @ + 1]
    /\ LET d == detect_search_intent(out).value IN
       seen' = [seen EXCEPT
                   !.classify = out,
                   !.log = @ \o <<"classify:return">>
                             \o (IF ~needs_search(d) THEN <<"converse:start">>
                                 ELSE IF HasTool(tools, "search")
                                      THEN <<"search:start", "summarize:start">> ELSE <<>>),
                   !.sent_converse =
                       IF needs_search(d) THEN <<>>
                       ELSE oracle_messages(ChatPrompt, conversation_history, message)]
    /\ UNCHANGED <<tools, conversation_history, message, result, raw_response, h0,
                   ret, api, messages, reg_calls, fx, sess, handler, auth>>

\* the classification oracle has answered: the decision, and the branch taken
Classified(out) ==
    /\ pc = "classify"
    /\ LET d == detect_search_intent(out).value IN
       /\ intent_result' = d
       /\ IF needs_search(d)
          THEN /\ search_query' = Get(d, "search_query", JStr(message))
               /\ pc' = "call_tool"
          ELSE /\ pc' = "converse"
               /\ UNCHANGED search_query
    /\ calls' = [calls EXCEPT !.classify = @ + 1]
    /\ LET d == detect_search_intent(out).value IN
       seen' = [seen EXCEPT
                   !.classify = out,
                   !.log = @ \o <<"classify:return">>
                             \o (IF ~needs_search(d) THEN <<"converse:start">>
                                 ELSE IF HasTool(tools, "search")
                                      THEN <<"search:start">> ELSE <<>>),
                   !.sent_converse =
                       IF needs_search(d) THEN <<>>
                       ELSE oracle_messages(ChatPrompt, conversation_history, message)]
    /\ UNCHANGED <<tools, conversation_history, message, result, raw_response, h0,
                   ret, api, messages, reg_calls, fx, sess, handler, auth>>

\* call_tool("search", query=search_query) has returned: either the apology
\* ends the run, or the raw block is formatted and the summary is awaited
ToolReturned(out) ==
    /\ pc = "call_tool"
    /\ LET r == call_tool(tools, "search", [query |-> search_query], out) IN
       /\ result' = r.env
       /\ calls' = [calls EXCEPT !.call_tool = @ + 1, !.execute = @ + r.executes,
                                 !.posts = @ + r.posts]
       /\ seen' = [seen EXCEPT
                      !.tool = out,
                      !.log = @ \o (IF r.executes > 0 THEN <<"search:return">> ELSE <<>>)
                                \o (IF ~r.raised /\ Get(r.env, "success", FALSE)
                                       /\ ~format_search_response(r.env.result).raised
                                       /\ PayloadError(r.env.result) = <<>>
                                    THEN <<"summarize:start">> ELSE <<>>)]
       /\ IF r.raised
          THEN Propagate(<<"call_tool raised">>) /\ UNCHANGED raw_response
          ELSE IF Get(r.env, "success", FALSE)
          THEN LET f == format_search_response(r.env.result) IN
               IF f.raised
               THEN Propagate(f.err) /\ UNCHANGED raw_response
               ELSE /\ raw_response' = f.value
                    /\ pc' = "summarize"
                    /\ UNCHANGED <<conversation_history, ret>>
          ELSE /\ Finish(Sorry \o Get(r.env, "error", <<"Unknown error">>))
               /\ UNCHANGED raw_response
    /\ UNCHANGED <<tools, message, intent_result, search_query, h0, api,
                   messages, reg_calls, fx, sess, handler, auth>>

\* the raw block is left out when no summary could be generated
Summarized_dropraw(out) ==
    /\ pc = "summarize"
    /\ LET s == summarize_search_results(result.result, out) IN
       /\ calls' = [calls EXCEPT !.summarize = @ + s.calls]
       /\ IF s.text = NoSummary
          THEN Finish(s.text)
          ELSE Finish(s.text \o RawHeader \o raw_response)
    /\ seen' = [seen EXCEPT
                   !.summarize = out,
                   !.log = @ \o (IF summarize_search_results(result.result, out).calls > 0
                                 THEN <<"summarize:return">> ELSE <<>>)]
    /\ UNCHANGED <<tools, message, intent_result, search_query, result, raw_response,
                   h0, api, messages, reg_calls, fx, sess, handler, auth>>

\* _summarize_search_results has returned: summary and raw block are combined
Summarized(out) ==
    /\ pc = "summarize"
    /\ LET s == summarize_search_results(result.result, out) IN
       /\ calls' = [calls EXCEPT !.summarize = @ + s.calls]
       /\ Finish(s.text \o RawHeader \o raw_response)
    /\ seen' = [seen EXCEPT
                   !.summarize = out,
                   !.log = @ \o (IF summarize_search_results(result.result, out).calls > 0
                                 THEN <<"summarize:return">> ELSE <<>>)]
    /\ UNCHANGED <<tools, message, intent_result, search_query, result, raw_response,
                   h0, api, messages, reg_calls, fx, sess, handler, auth>>

\* _generate_openai_response has returned
Conversed(out) ==
    /\ pc = "converse"
    /\ calls' = [calls EXCEPT !.converse = @ + 1]
    /\ seen' = [seen EXCEPT !.converse = out, !.log = @ \o <<"converse:return">>]
    /\ LET g == generate_openai_response(out) IN
       IF g.raised THEN Propagate(g.err) ELSE Finish(g.value)
    /\ UNCHANGED <<tools, message, intent_result, search_query, result, raw_response,
                   h0, api, messages, reg_calls, fx, sess, handler, auth>>

ErrorMsg == <<"Sorry, I encountered an error: ">>

\* an outcome handler that shows the error of a failed run without storing it
Return_silent ==
    /\ pc = "done"
    /\ messages' = IF ret.status = "returned"
                   THEN session_append(messages, "assistant", ret.response)
                   ELSE messages
    /\ pc' = "idle"
    /\ message' = <<>>
    /\ intent_result' = <<>>
    /\ search_query' = JNull
    /\ result' = NoResult
    /\ raw_response' = <<>>
    /\ calls' = NoCalls
    /\ seen' = NoSeen
    /\ ret' = NoRet
    /\ h0' = conversation_history
    /\ UNCHANGED <<tools, conversation_history, api, reg_calls, fx, sess, handler, auth>>

\* main of app.py has the outcome of asyncio.run(process_message(prompt)): the
\* response, or the error message of its except branch, is appended to the UI
\* list; the locals are gone
Return ==
    /\ pc = "done"
    /\ messages' = session_append(messages, "assistant",
                                  IF ret.status = "returned" THEN ret.response
                                  ELSE ErrorMsg \o ret.response)
    /\ pc' = "idle"
    /\ message' = <<>>
    /\ intent_result' = <<>>
    /\ search_query' = JNull
    /\ result' = NoResult
    /\ raw_response' = <<>>
    /\ calls' = NoCalls
    /\ seen' = NoSeen
    /\ ret' = NoRet
    /\ h0' = conversation_history
    /\ UNCHANGED <<tools, conversation_history, api, reg_calls, fx, sess, handler, auth>>

\* the "Clear Chat History" button of the sidebar
ClearChat ==
    /\ pc = "idle"
    /\ messages # <<>>
    /\ messages' = <<>>
    /\ UNCHANGED <<tools, conversation_history, pc, message, intent_result,
                   search_query, result, raw_response, calls, seen, h0, ret, api,
                   reg_calls, fx, sess, handler, auth>>

\* register_tool(name, tool), with the call recorded
RegisterLogged(name, tool) ==
    /\ pc = "idle"
    /\ conversation_history = <<>>
    /\ Len(reg_calls) < MaxRegs
    /\ tools' = register_tool(tools, name, tool)
    /\ reg_calls' = Append(reg_calls, [name |-> name, tool |-> tool])
    /\ UNCHANGED <<conversation_history, pc, message, intent_result, search_query,
                   result, raw_response, calls, seen, h0, ret, api, messages, fx, sess, handler, auth>>

Next ==
    \/ \E reg \in Registrations : RegisterTool(reg[1], reg[2])
    \/ \E name \in ToolNames, kwargs \in KwargsSet, out \in ToolOutcomes :
          CallTool(name, kwargs, out)
    \/ ApiReturn
    \/ \E m \in Messages : Start(m)
    \/ \E out \in ClassifyOutcomes : Classified(out)
    \/ \E out \in ToolOutcomes : ToolReturned(out)
    \/ \E out \in ChatOutcomes : Summarized(out)
    \/ \E out \in ChatOutcomes : Conversed(out)
    \/ Return
    \/ ClearChat

Spec == Init /\ [][Next]_vars

\* _format_search_response(search_data) and the simplified_results of
\* _summarize_search_results(search_data), by both copies of the class
Format(search_data) ==
    /\ fx = NoFx
    /\ fx' = [data |-> search_data,
              chatbot |-> format_search_response(search_data),
              app |-> app_format_search_response(search_data),
              chatbot_summary |-> IF PayloadError(search_data) # <<>> THEN <<>>
                                  ELSE simplified_results(search_data),
              app_summary |-> IF PayloadError(search_data) # <<>> THEN <<>>
                              ELSE app_simplified_results(search_data)]
    /\ UNCHANGED <<tools, conversation_history, pc, message, intent_result,
                   search_query, result, raw_response, calls, seen, h0, ret, api,
                   messages, reg_calls, sess, handler, auth>>

\* the formatters alone, on every payload of FormatPayloads
NextFormat == \E search_data \in FormatPayloads : Format(search_data)

SpecFormat == Init /\ [][NextFormat]_vars

\* the script of session s runs the initialization block of main: with both
\* keys and no server yet, MCPServer(), register_tool("search", ...) and
\* MCPChatbot(mcp_server) are stored in the session state, unless a constructor
\* raises (ok = FALSE) and the block's except leaves the session state as it was
ScriptInit(s, ok) ==
    LET k == session_key(s) IN
    /\ sess.serper_api_key /\ sess.openai_api_key
    /\ sess.state[k].mcp_server = 0
    /\ sess.state[k].pc = "idle"
    /\ sess' =
          IF ok
          THEN [sess EXCEPT
                  !.servers = Append(@, register_tool(MCPServer_init, "search", "serper")),
                  !.chatbots = Append(@, [mcp_server |-> Len(sess.servers) + 1,
                                         conversation_history |-> <<>>]),
                  !.state[k].mcp_server = Len(sess.servers) + 1,
                  !.state[k].chatbot = Len(sess.chatbots) + 1,
                  !.last = [session |-> s, event |-> "initialized", prompt |-> <<>>]]
          ELSE [sess EXCEPT
                  !.last = [session |-> s, event |-> "init failed", prompt |-> <<>>]]
    /\ UNCHANGED <<tools, conversation_history, pc, message, intent_result,
                   search_query, result, raw_response, calls, seen, h0, ret, api,
                   messages, reg_calls, fx, handler, auth>>

\* a prompt that is stored before the checks of the keys and of the chatbot
Reject_stored(s, m) ==
    LET k == session_key(s) IN
    /\ sess.state[k].pc = "idle"
    /\ \/ ~sess.serper_api_key \/ ~sess.openai_api_key
       \/ sess.state[k].chatbot = 0
    /\ sess' = [sess EXCEPT
                   !.state[k].messages = session_append(@, "user", m),
                   !.last = [session |-> s, event |-> "rejected", prompt |-> m]]
    /\ UNCHANGED <<tools, conversation_history, pc, message, intent_result,
                   search_query, result, raw_response, calls, seen, h0, ret, api,
                   messages, reg_calls, fx, handler, auth>>

\* the chat input of session s gives the prompt m while a key is missing or
\* the chatbot is None: main shows an error and returns
Reject(s, m) ==
    LET k == session_key(s) IN
    /\ sess.state[k].pc = "idle"
    /\ \/ ~sess.serper_api_key \/ ~sess.openai_api_key
       \/ sess.state[k].chatbot = 0
    /\ sess' = [sess EXCEPT
                   !.last = [session |-> s, event |-> "rejected", prompt |-> m]]
    /\ UNCHANGED <<tools, conversation_history, pc, message, intent_result,
                   search_query, result, raw_response, calls, seen, h0, ret, api,
                   messages, reg_calls, fx, handler, auth>>

\* the chat input of session s gives the prompt m: it is appended to the UI
\* list and process_message(m) of the session's chatbot starts
Accept(s, m) ==
    LET k == session_key(s)
        c == sess.state[k].chatbot
    IN /\ sess.serper_api_key /\ sess.openai_api_key
       /\ c # 0
       /\ sess.state[k].pc = "idle"
       /\ Len(sess.chatbots[c].conversation_history) + 2 <= MaxSessionHistory
       /\ sess' = [sess EXCEPT
                      !.state[k].messages = session_append(@, "user", m),
                      !.state[k].pc = "running",
                      !.state[k].prompt = m,
                      !.chatbots[c].conversation_history = Append(@, Turn("user", m)),
                      !.last = [session |-> s, event |-> "accepted", prompt |-> m]]
       /\ UNCHANGED <<tools, conversation_history, pc, message, intent_result,
                      search_query, result, raw_response, calls, seen, h0, ret, api,
                      messages, reg_calls, fx, handler, auth>>

\* process_message of session s ends: the assistant turn and the response,
\* or the error message of main's except branch, are stored
Complete(s, run) ==
    LET k == session_key(s)
        c == sess.state[k].chatbot
        m == sess.state[k].prompt
    IN /\ sess.state[k].pc = "running"
       /\ LET r == process_message_result(
                       sess.servers[sess.chatbots[c].mcp_server], m, run)
              shown == IF r.raised THEN ErrorMsg \o r.err ELSE r.value
          IN sess' = [sess EXCEPT
                        !.state[k].messages = session_append(@, "assistant", shown),
                        !.state[k].pc = "idle",
                        !.state[k].prompt = <<>>,
                        !.state[k].response = shown,
                        !.chatbots[c].conversation_history =
                            IF r.raised THEN @ ELSE Append(@, Turn("assistant", r.value)),
                        !.last = [session |-> s, event |-> "answered", prompt |-> m]]
       /\ UNCHANGED <<tools, conversation_history, pc, message, intent_result,
                      search_query, result, raw_response, calls, seen, h0, ret, api,
                      messages, reg_calls, fx, handler, auth>>

\* the environment holds both keys, one of them, or none
InitSessions ==
    /\ InitChat
    /\ \E serper_api_key, openai_api_key \in BOOLEAN :
           sess = NoSess(serper_api_key, openai_api_key)

\* the script runs of the sessions
NextSessions ==
    \/ \E s \in Sessions, ok \in BOOLEAN : ScriptInit(s, ok)
    \/ \E s \in Sessions, m \in Messages : Reject(s, m)
    \/ \E s \in Sessions, m \in Messages : Accept(s, m)
    \/ \E s \in Sessions, run \in SessionRuns : Complete(s, run)

SpecSessions == InitSessions /\ [][NextSessions]_vars

\* add_user(username, name, email, password) by admin session p, up to the
\* opening of the file for writing: the file is loaded, the username looked
\* up and the new entry put into the loaded config. Loading a file that
\* another call has just opened for writing gives None, and the lookup raises.
AddUserLoad(p, username, password) ==
    /\ auth.procs[p].pc = "idle"
    /\ auth.calls < MaxAddCalls
    /\ auth' =
          [auth EXCEPT
             !.calls = @ + 1,
             !.overlapped = @ \/ \E q \in AdminSessions : auth.procs[q].pc # "idle",
             !.procs[p] =
                 IF auth.file.truncated \/ auth.file.usernames[username] # NoUser
                 THEN NoProc
                 ELSE [pc |-> "open", username |-> username,
                       config |-> [auth.file.usernames EXCEPT
                                      ![username] = UserEntry(username, password)]]]
    /\ UNCHANGED <<tools, conversation_history, pc, message, intent_result,
                   search_query, result, raw_response, calls, seen, h0, ret, api,
                   messages, reg_calls, fx, sess, handler>>

\* with open(config_path, 'w') as file: the file is truncated
AddUserOpen(p) ==
    /\ auth.procs[p].pc = "open"
    /\ auth' = [auth EXCEPT
                   !.file = [truncated |-> TRUE,
                             usernames |-> [u \in DOMAIN InitialUsernames |-> NoUser]],
                   !.procs[p].pc = "dump"]
    /\ UNCHANGED <<tools, conversation_history, pc, message, intent_result,
                   search_query, result, raw_response, calls, seen, h0, ret, api,
                   messages, reg_calls, fx, sess, handler>>

\* yaml.dump(config, file), the file is closed and add_user returns True
AddUserDump(p) ==
    /\ auth.procs[p].pc = "dump"
    /\ auth' = [auth EXCEPT
                   !.file = [truncated |-> FALSE, usernames |-> auth.procs[p].config],
                   !.added = @ \cup {<<auth.procs[p].username,
                                       auth.procs[p].config[auth.procs[p].username]>>},
                   !.procs[p] = NoProc]
    /\ UNCHANGED <<tools, conversation_history, pc, message, intent_result,
                   search_query, result, raw_response, calls, seen, h0, ret, api,
                   messages, reg_calls, fx, sess, handler>>

\* the credentials file and the add_user calls of the admin sessions
NextAuth ==
    \/ \E p \in AdminSessions, username \in NewUsernames, password \in Passwords :
           AddUserLoad(p, username, password)
    \/ \E p \in AdminSessions : AddUserOpen(p)
    \/ \E p \in AdminSessions : AddUserDump(p)

SpecAuth == Init /\ [][NextAuth]_vars

\* logger.info(...) and the like: the handler's emit is called with a record
Emit ==
    /\ handler.emitted < MaxEmits
    /\ handler' = [logs |-> emit(handler.logs, LogEntry(handler.emitted + 1)),
                   emitted |-> handler.emitted + 1]
    /\ UNCHANGED <<tools, conversation_history, pc, message, intent_result,
                   search_query, result, raw_response, calls, seen, h0, ret, api,
                   messages, reg_calls, fx, sess, auth>>

\* the log handler alone
NextLog == Emit

SpecLog == Init /\ [][NextLog]_vars

\* the registry alone: every sequence of up to MaxRegs register_tool calls
NextRegistry ==
    \E name \in ToolNames, tool \in ToolKinds : RegisterLogged(name, tool)

SpecRegistry == Init /\ [][NextRegistry]_vars

\* ------------------------------------------------------------------ claims
Decided == pc \in {"call_tool", "summarize", "converse", "done"}

\* the decision says needs_search is false (or says nothing about it)
DecidedNoSearch == Decided /\ ~Truthy(Get(intent_result, "needs_search", JBool(FALSE)))

DecidedSearch == Decided /\ Truthy(Get(intent_result, "needs_search", JBool(FALSE)))

SerperRegistered ==
    \E i \in 1..Len(tools) : tools[i].name = "search" /\ tools[i].tool = "serper"

SearchRegistered == \E i \in 1..Len(tools) : tools[i].name = "search"

\* the run appended the user turn and one assistant turn holding the response
OneExchange ==
    /\ ret.status = "returned"
    /\ conversation_history =
          h0 \o <<Turn("user", message), Turn("assistant", ret.response)>>

\* the POST of this run's search failed
SearchHttpFailed ==
    /\ pc \in {"summarize", "done"}
    /\ SerperRegistered
    /\ seen.tool # None
    /\ seen.tool.kind = "fail"

\* the classification oracle raised, or its text is not a JSON object
ClassifyFailed ==
    /\ Decided
    /\ \/ seen.classify.kind = "raise"
       \/ seen.classify.content.t = "null"
       \/ json_loads(strip(seen.classify.content.v)).raised
       \/ json_loads(strip(seen.classify.content.v)).value.t # "object"

\* the oracle call whose outcome is `out` failed
OracleFailed(out) == out.kind = "raise" \/ out.content.t = "null"

\* C1: every finished process_message run has returned a string and has
\* appended exactly the user turn M and then one assistant turn holding that
\* string, whatever the oracles and the search endpoint did.
C1_OneUserOneAssistantTurn == pc = "done" => OneExchange

\* C2: when the search POST failed, the returned string is the apology with
\* the marker "couldn't" and the error detail, the summarization oracle was not
\* called, and the response holds no AI summary.
C2_FailedSearchApology ==
    (pc = "done" /\ SearchHttpFailed) =>
        /\ ret.status = "returned"
        /\ SubSeq(ret.response, 1, Len(Sorry)) = Sorry
        /\ Contains(ret.response, "couldn't")
        /\ Contains(ret.response, seen.tool.detail)
        /\ calls.summarize = 0
        /\ ~Contains(ret.response, "**AI Summary:**")

\* C3: when the search request fails, call_tool("search", ...) returns an
\* error envelope: an "error" entry and no success flag.
C3_FailedRequestErrorEnvelope ==
    /\ SearchHttpFailed =>
          "error" \in DOMAIN result /\ "success" \notin DOMAIN result
    /\ (pc = "api_done" /\ api.name = "search" /\ SerperRegistered
           /\ BindError(api.kwargs) = <<>> /\ api.out.kind = "fail") =>
          "error" \in DOMAIN api.r.env /\ "success" \notin DOMAIN api.r.env

\* C4: when the classification oracle raises or its text does not parse as a
\* JSON decision, the decision has needs_search = false, the search tool is not
\* called, and the run returns a non-empty string.
C4_ClassifierFailureDegrades ==
    ClassifyFailed =>
        /\ Get(intent_result, "needs_search", JNull) = JBool(FALSE)
        /\ calls.call_tool = 0
        /\ calls.execute = 0
        /\ pc = "done" => (ret.status = "returned" /\ ret.response # <<>>)

\* C5: when the decision has needs_search = false, the run never calls
\* call_tool and sends nothing to the search endpoint; it calls the
\* conversational oracle once, and that oracle's (stripped) text is the content
\* of the one assistant turn the run appends.
C5_NoSearchWithoutNeed ==
    DecidedNoSearch =>
        /\ calls.call_tool = 0 /\ calls.execute = 0 /\ calls.posts = 0
        /\ calls.summarize = 0
        /\ pc \in {"converse", "done"}
        /\ pc = "done" =>
              /\ calls.converse = 1
              /\ OneExchange
              /\ ~OracleFailed(seen.converse) =>
                    ret.response = strip(seen.converse.content.v)

C5_Witness ==
    /\ pc = "done" /\ DecidedNoSearch
    /\ seen.converse.kind = "reply" /\ seen.converse.content.t = "string"
    /\ ret.response = <<"Hi there!">>

\* C6: when a search is needed and no tool is registered as "search", no
\* execute and no summarization call happen, the returned string reports that
\* the tool was not found, and one assistant turn is appended.
C6_ToolNotFound ==
    (pc = "done" /\ DecidedSearch /\ ~SearchRegistered) =>
        /\ calls.execute = 0 /\ calls.posts = 0 /\ calls.summarize = 0
        /\ ret.response = Sorry \o <<"Tool '", "search", "' not found">>
        /\ OneExchange

C6_Witness ==
    /\ pc = "done" /\ DecidedSearch /\ ~SearchRegistered
    /\ calls.call_tool = 1
    /\ Len(conversation_history) = Len(h0) + 2

\* the search of this run succeeded and its summarization oracle call failed
SummaryFailed ==
    /\ pc = "done"
    /\ seen.tool # None /\ seen.tool.kind = "ok"
    /\ seen.summarize # None /\ OracleFailed(seen.summarize)

\* C7: when the search succeeds and the summarization oracle call fails, the
\* response is the note that no summary could be generated followed by the
\* complete raw block, the block a successful summarization is followed by.
C7_RawResultsSurvive ==
    SummaryFailed =>
        /\ ret.status = "returned"
        /\ ret.response =
              NoSummary \o RawHeader \o format_search_response(seen.tool.body).value
        /\ raw_response = format_search_response(seen.tool.body).value

C7_Witness ==
    /\ SummaryFailed
    /\ seen.tool.body = JObj([organic |-> Organic(MaxOrganic), knowledgeGraph |-> KG])
    /\ Contains(ret.response, "l1")

\* C8: within one run the search endpoint is requested at most once and each
\* oracle at most once; a failed search or oracle call is not retried.
C8_AtMostOnce ==
    /\ calls.posts <= 1 /\ calls.execute <= 1 /\ calls.call_tool <= 1
    /\ calls.classify <= 1 /\ calls.summarize <= 1 /\ calls.converse <= 1
    /\ calls.summarize + calls.converse <= 1

C8_Witness ==
    /\ pc = "done" /\ SearchHttpFailed
    /\ calls.posts = 1
    /\ OracleFailed(seen.summarize)

\* the envelope is a success envelope or an error envelope, never both
Envelope(env) ==
    \/ DOMAIN env = {"success", "result"} /\ env.success = TRUE
    \/ DOMAIN env = {"error"} /\ env.error # <<>>

\* C9: call_tool never raises to its caller and returns either a success
\* envelope or an error envelope, never both; a call of the search tool without
\* "query" yields an error envelope that says which argument is missing.
C9_CallToolNeverRaises ==
    /\ pc = "api_done" =>
          /\ ~api.r.raised
          /\ Envelope(api.r.env)
          /\ (api.name = "search" /\ SerperRegistered /\ "query" \notin DOMAIN api.kwargs) =>
                api.r.env = [error |-> <<"Tool execution failed: ",
                    "execute() missing 1 required positional argument: 'query'">>]
    /\ (pc \in {"summarize", "done"} /\ calls.call_tool = 1) =>
          Envelope(result) /\ ret.response # <<"call_tool raised">>

C9_Witness ==
    /\ pc = "api_done"
    /\ api.name = "search" /\ SerperRegistered /\ "query" \notin DOMAIN api.kwargs
    /\ "error" \in DOMAIN api.r.env

\* C10: when the conversational oracle call fails, the run still returns: the
\* response is the apology that embeds the failure reason, and it is the
\* content of the one assistant turn.
C10_ConverseFailureApology ==
    (pc = "done" /\ calls.converse = 1 /\ OracleFailed(seen.converse)) =>
        /\ OneExchange
        /\ ret.response =
              Trouble \o (IF seen.converse.kind = "raise" THEN seen.converse.err
                          ELSE NoStrip)

C10_Witness ==
    /\ pc = "done" /\ calls.converse = 1
    /\ seen.converse.kind = "raise"
    /\ conversation_history[Len(conversation_history)] =
          Turn("assistant", Trouble \o <<"Request timed out.">>)

\* ---------------------------------------------------------------- registry
\* the names of the recorded calls, each at its first registration
RECURSIVE FirstOrder(_)
FirstOrder(log) ==
    IF log = <<>> THEN <<>>
    ELSE LET before == FirstOrder(SubSeq(log, 1, Len(log) - 1))
             name == log[Len(log)].name
         IN IF \E i \in 1..Len(before) : before[i] = name
            THEN before ELSE Append(before, name)

RegisteredNames == {reg_calls[i].name : i \in 1..Len(reg_calls)}

\* the tool given by the last recorded call for the name
LatestTool(name) ==
    LET last == CHOOSE i \in 1..Len(reg_calls) :
                    /\ reg_calls[i].name = name
                    /\ \A j \in (i + 1)..Len(reg_calls) : reg_calls[j].name # name
    IN reg_calls[last].tool

\* C11: after any sequence of register_tool calls, list_tools() has exactly
\* one entry for each name that was registered and none for any other name,
\* and the entry of a name registered more than once is bound to the tool of
\* the most recent registration.
C11_OneEntryPerName ==
    LET l == list_tools(tools) IN
    /\ \A name \in ToolNames :
           Cardinality({i \in 1..Len(l) : l[i].name = name})
               = (IF name \in RegisteredNames THEN 1 ELSE 0)
    /\ \A i \in 1..Len(l) :
           /\ tools[i].tool = LatestTool(l[i].name)
           /\ l[i].schema = get_schema(LatestTool(l[i].name))

\* "search" was registered twice, the second time with another tool
C11_Witness ==
    /\ \E i, j \in 1..Len(reg_calls) :
           /\ i < j
           /\ reg_calls[i].name = "search" /\ reg_calls[j].name = "search"
           /\ reg_calls[i].tool = "serper" /\ reg_calls[j].tool = "custom"
           /\ LatestTool("search") = "custom"
    /\ Len(list_tools(tools)) = 1

\* C18: list_tools() returns the entries in the order in which the names were
\* first registered; a name registered again keeps the position of its first
\* registration.
C18_RegistrationOrder ==
    LET l == list_tools(tools) IN
    [i \in 1..Len(l) |-> l[i].name] = FirstOrder(reg_calls)

\* "search", then "calc", then "search" again: "search" is still listed first
C18_Witness ==
    /\ Len(reg_calls) = 3
    /\ reg_calls[1].name = "search" /\ reg_calls[2].name = "calc"
    /\ reg_calls[3].name = "search"
    /\ list_tools(tools)[1].name = "search"
    /\ list_tools(tools)[2].name = "calc"

\* --------------------------------------------------------------- raw block
\* the payload has an organic array of result objects
HasOrganic(search_data) ==
    /\ search_data.t = "object"
    /\ "error" \notin DOMAIN search_data.v
    /\ "organic" \in DOMAIN search_data.v
    /\ PayloadError(search_data) = <<>>

\* entry number i of a raw block: title, snippet and link, or their defaults
ListedEntry(i, entry) ==
    <<"**", NumStr(i), ". ">>
        \o (IF "title" \in DOMAIN entry.v THEN entry.v.title.v ELSE <<"No title">>)
        \o <<"**", "\n">>
        \o (IF "snippet" \in DOMAIN entry.v THEN entry.v.snippet.v
            ELSE <<"No description">>)
        \o <<"\n", "link: ">>
        \o (IF "link" \in DOMAIN entry.v THEN entry.v.link.v ELSE <<>>)
        \o <<"\n\n">>

\* the first k entries of the array, numbered 1..k in the array's order
RECURSIVE Listed(_, _)
Listed(organic, k) ==
    IF k = 0 THEN <<>> ELSE Listed(organic, k - 1) \o ListedEntry(k, organic[k])

QuickAnswer(search_data) ==
    IF "knowledgeGraph" \in DOMAIN search_data.v
    THEN <<"**Quick Answer:** ", "kd", "\n\n">> ELSE <<>>

\* the raw block that lists exactly the first k entries of the payload
BlockOf(search_data, k) ==
    <<"Here's what I found:", "\n\n">>
        \o Listed(search_data.v.organic.v, k) \o QuickAnswer(search_data)

\* C12: for a payload whose organic array has n entries, the raw block of
\* either copy of _format_search_response (chatbot.py and app.py) lists exactly
\* the first min(n, 5) entries, numbered from 1 in payload order, each with its
\* title, snippet and link or their defaults.
C12_RawBlockFirstFive ==
    HasOrganic(fx.data) =>
        LET n == Len(fx.data.v.organic.v)
            block == BlockOf(fx.data, IF n < 5 THEN n ELSE 5)
        IN /\ fx.chatbot = Ok(block)
           /\ fx.app = Ok(block)

\* the part of C12 that holds: the copy in chatbot.py lists the first min(n, 5)
C12_ChatbotCopy ==
    HasOrganic(fx.data) =>
        LET n == Len(fx.data.v.organic.v) IN
        fx.chatbot = Ok(BlockOf(fx.data, IF n < 5 THEN n ELSE 5))

\* the copy in app.py lists the first min(n, 3)
C12_AppCopy ==
    HasOrganic(fx.data) =>
        LET n == Len(fx.data.v.organic.v) IN
        fx.app = Ok(BlockOf(fx.data, IF n < 3 THEN n ELSE 3))

\* the search of this run succeeded with an organic array, and the
\* summarization oracle answered
SearchAndSummaryOk ==
    /\ pc = "done"
    /\ SerperRegistered
    /\ seen.tool # None /\ seen.tool.kind = "ok" /\ HasOrganic(seen.tool.body)
    /\ seen.summarize # None /\ ~OracleFailed(seen.summarize)

\* C13: when the search succeeds with k organic results (k within the cap)
\* and the summarization succeeds, the response is the summary text followed
\* by the raw block that lists exactly those k results with their links.
C13_SummaryThenRawBlock ==
    SearchAndSummaryOk =>
        LET k == Len(seen.tool.body.v.organic.v) IN
        /\ k <= ResultCap
        /\ ret.status = "returned"
        /\ ret.response =
              <<"**AI Summary:**", "\n\n">> \o strip(seen.summarize.content.v)
                  \o RawHeader \o BlockOf(seen.tool.body, k)

\* a run whose search returned MaxOrganic results and whose summary has text
C13_Witness ==
    /\ SearchAndSummaryOk
    /\ Len(seen.tool.body.v.organic.v) = MaxOrganic
    /\ Contains(ret.response, "Hi there!")
    /\ Contains(ret.response, NumStr(MaxOrganic))
    /\ Contains(ret.response, "l1")

\* ------------------------------------------------------------ conversation
IsPrefix(s, t) == Len(s) <= Len(t) /\ SubSeq(t, 1, Len(s)) = s

\* C14: conversation_history only grows: whatever operation is performed, the
\* history before it is a prefix of the history after it.
C14_HistoryOnlyGrows ==
    [][IsPrefix(conversation_history, conversation_history')]_vars

\* two runs have extended the history, and the UI list was cleared in between
C14_Witness ==
    /\ pc = "idle"
    /\ Len(conversation_history) = 4
    /\ Len(messages) = 2

\* C15: the "Clear Chat History" reset clears the whole conversation of the
\* session: once the UI list is empty no earlier turn remains in
\* conversation_history, and the oracles of the next message get no earlier
\* turn.
C15_ClearResetsConversation ==
    /\ (pc = "idle" /\ messages = <<>>) => conversation_history = <<>>
    /\ (pc = "classify" /\ Len(messages) = 1) =>
           seen.sent_classify = <<Turn("system", <<IntentPrompt>>), Turn("user", message)>>

\* what does hold: the reset empties the UI list and leaves
\* conversation_history as it was
C15_ClearKeepsHistory ==
    [][(messages # <<>> /\ messages' = <<>>) =>
           conversation_history' = conversation_history]_vars

\* a process_message run is in flight, up to the handling of its outcome
InFlight == pc \in {"classify", "call_tool", "summarize", "converse", "done"}

UserTurns(h) == Len(SelectSeq(h, LAMBDA t : t.role = "user"))

C17_EveryRunReturns ==
    pc = "done" => /\ ret.status = "returned"
                   /\ ret.response \in Seq(STRING)

\* what does hold: a run ends with an exception only when the search request
\* succeeded with a body that _format_search_response cannot read; no failed
\* or timed-out call makes the run raise
C17_FailedCallsDegrade ==
    (pc = "done" /\ ret.status = "raised") =>
        /\ seen.classify # None
        /\ seen.tool # None /\ seen.tool.kind = "ok"
        /\ PayloadError(seen.tool.body) # <<>>
        /\ seen.summarize = None /\ seen.converse = None

\* the network calls of a complete run, each with its start and its return
RunLogs ==
    { <<"classify:start", "classify:return">>,
      <<"classify:start", "classify:return", "converse:start", "converse:return">>,
      <<"classify:start", "classify:return", "search:start", "search:return">>,
      <<"classify:start", "classify:return", "search:start", "search:return",
        "summarize:start", "summarize:return">> }

\* number of network calls started so far in the run
NetCalls ==
    Cardinality({i \in 1..Len(seen.log) :
                    seen.log[i] \in {"classify:start", "search:start",
                                     "summarize:start", "converse:start"}})

\* the calls so far were made in the order of a run, none started before the
\* previous one returned; the user turn was appended before the first of
\* them and the assistant turn is there only after the last has returned
SequentialCalls ==
    InFlight =>
        /\ \E l \in RunLogs : IsPrefix(seen.log, l)
        /\ pc = "done" => seen.log \in RunLogs
        /\ seen.log # <<>>
        /\ IsPrefix(h0 \o <<Turn("user", message)>>, conversation_history)
        /\ Len(conversation_history) = Len(h0) + 2 =>
               /\ pc = "done"
               /\ conversation_history[Len(h0) + 2].role = "assistant"

\* C19 as stated: each run performs two or three network calls, one after
\* another in the order classify, search, summarize or converse, with the user
\* turn appended before the first call and the assistant turn after the last.
C19_TwoOrThreeCalls ==
    /\ SequentialCalls
    /\ pc = "done" => NetCalls \in {2, 3}

\* C19, amended: each run performs one, two or three network calls (one when
\* a search is needed and no tool is registered as "search"), one after another in the order
\* classify, search, summarize or converse, with the user turn appended before
\* the first call and the assistant turn after the last.
C19_OneToThreeCalls ==
    /\ SequentialCalls
    /\ pc = "done" => NetCalls \in {1, 2, 3}
    /\ (pc = "done" /\ NetCalls = 1) => (DecidedSearch /\ ~SearchRegistered)

\* a run of three calls has returned
C19_Witness ==
    /\ pc = "done" /\ ret.status = "returned"
    /\ NetCalls = 3
    /\ seen.log[5] = "summarize:start"
    /\ Len(conversation_history) = Len(h0) + 2

\* C20: the message list sent to the classification oracle and to the
\* conversational oracle is the system instruction, then every turn stored
\* before this run in stored order, then the current message once, as the last
\* element.
C20_OracleMessages ==
    /\ InFlight =>
           seen.sent_classify =
               <<Turn("system", <<IntentPrompt>>)>> \o h0 \o <<Turn("user", message)>>
    /\ (InFlight /\ (pc = "converse" \/ seen.converse # None)) =>
           seen.sent_converse =
               <<Turn("system", <<ChatPrompt>>)>> \o h0 \o <<Turn("user", message)>>

\* the second message of a session is with the conversational oracle
C20_Witness ==
    /\ pc = "converse"
    /\ Len(h0) = 2
    /\ Len(seen.sent_converse) = 4
    /\ Len(seen.sent_classify) = 4

\* ------------------------------------------------- summary and raw block
\* the organic entries among the results given to the summarization oracle
\* (a knowledge graph with a description is given as one more, last, entry)
SummarizedOrganic(results, search_data) ==
    SubSeq(results, 1,
           Len(results) - (IF QuickAnswer(search_data) # <<>> THEN 1 ELSE 0))

\* the raw block that renders exactly these entries, in this order
RECURSIVE RenderedFrom(_, _)
RenderedFrom(results, k) ==
    IF k = 0 THEN <<>>
    ELSE RenderedFrom(results, k - 1)
            \o <<"**", NumStr(k), ". ">> \o results[k].title.v
            \o <<"**", "\n">> \o results[k].snippet.v
            \o <<"\n", "link: ">> \o results[k].link.v \o <<"\n\n">>

SameResults(block, results, search_data) ==
    LET organic == SummarizedOrganic(results, search_data) IN
    block = Ok(<<"Here's what I found:", "\n\n">>
               \o RenderedFrom(organic, Len(organic)) \o QuickAnswer(search_data))

\* C21: on a successful search the organic results given to the summarization
\* oracle are the entries rendered in the raw block of the same response, in
\* the same order, for either copy of the class (chatbot.py and app.py).
C21_SummaryOfShownResults ==
    HasOrganic(fx.data) =>
        /\ SameResults(fx.chatbot, fx.chatbot_summary, fx.data)
        /\ SameResults(fx.app, fx.app_summary, fx.data)

\* the part of C21 that holds: the copy in chatbot.py summarizes what it shows
C21_ChatbotCopy ==
    HasOrganic(fx.data) => SameResults(fx.chatbot, fx.chatbot_summary, fx.data)

\* ------------------------------------------------------------ search query
\* the decision carries a search_query that is not null
QuerySupplied ==
    /\ "search_query" \in DOMAIN intent_result
    /\ intent_result.search_query # JNull

\* C23: when the decision has needs_search = true, the query passed to the
\* search tool is the decision's search_query when the oracle supplied one
\* and the user's message otherwise, also when search_query is null; the tool
\* is never called with a null query.
C23_QueryFallback ==
    DecidedSearch =>
        /\ search_query = (IF QuerySupplied THEN intent_result.search_query
                           ELSE JStr(message))
        /\ search_query # JNull

\* what does hold: the message replaces the query only when the decision has
\* no "search_query" key at all; a null search_query is passed on as it is
C23_QueryAsDecided ==
    DecidedSearch =>
        search_query = (IF "search_query" \in DOMAIN intent_result
                        THEN intent_result.search_query ELSE JStr(message))

\* ------------------------------------------------------- UI list and history
\* C24: after every completed chat submission the UI list
\* st.session_state.messages and conversation_history hold the same sequence
\* of turns, across submissions, failed runs and "Clear Chat History" actions.
C24_MessagesMirrorHistory ==
    pc = "idle" => messages = conversation_history

Alternates(h) ==
    \A i \in 1..Len(h) : h[i].role = (IF i % 2 = 1 THEN "user" ELSE "assistant")

\* C25: whenever no process_message run is in flight, conversation_history
\* has even length and alternates user, assistant, user, assistant, ...,
\* also after runs in which a call or the formatting of a payload failed.
C25_HistoryAlternates ==
    ~InFlight => /\ Len(conversation_history) % 2 = 0
                 /\ Alternates(conversation_history)

\* what does hold: the history starts with a user turn and an assistant turn
\* always follows a user turn
C25_AssistantFollowsUser ==
    \A i \in 1..Len(conversation_history) :
        conversation_history[i].role = "assistant" =>
            i > 1 /\ conversation_history[i - 1].role = "user"

\* C28: every accepted prompt adds exactly one user entry and then exactly
\* one assistant entry to st.session_state.messages: the prompt when the run
\* starts, nothing while it is in flight, and the response, or the "Sorry, I
\* encountered an error" message when process_message raised, when it ends.
C28_OneUserOneAssistantEntry ==
    [][/\ (pc = "idle" /\ pc' = "classify") =>
              messages' = Append(messages, Turn("user", message'))
       /\ (InFlight /\ InFlight') => messages' = messages
       /\ (pc = "done" /\ pc' = "idle") =>
              /\ Len(messages) >= 1 /\ messages[Len(messages)] = Turn("user", message)
              /\ messages' =
                    Append(messages,
                           Turn("assistant",
                                IF ret.status = "raised"
                                THEN <<"Sorry, I encountered an error: ">> \o ret.response
                                ELSE ret.response))]_vars

\* a run has raised and its error message is the last entry of the UI list
C28_Witness ==
    /\ pc = "idle"
    /\ Len(messages) = 2 /\ Len(conversation_history) = 1
    /\ messages[1].role = "user" /\ messages[2].role = "assistant"
    /\ messages[2].content[1] = "Sorry, I encountered an error: "

\* -------------------------------------------------------------- log buffer
\* C26: after an emit the handler's buffer never holds more than 100 entries;
\* once 100 are stored each further emit drops the oldest, so the buffer holds
\* the most recent 100 records (all of them while fewer were emitted) in
\* emission order.
C26_LastHundred ==
    LET n == handler.emitted
        k == IF n < 100 THEN n ELSE 100
    IN /\ Len(handler.logs) = k
       /\ \A i \in 1..k : handler.logs[i] = LogEntry(n - k + i)

\* three records past the hundredth: the first three are gone
C26_Witness ==
    /\ handler.emitted = 103
    /\ Len(handler.logs) = 100
    /\ handler.logs[1].message = 4
    /\ handler.logs[100].message = 103

\* --------------------------------------------------------------- add_user
\* no add_user call is between its load and the end of its dump
NoAddUserRunning == \A p \in AdminSessions : auth.procs[p].pc = "idle"

\* the administrator's entry is as deployed and every user for whom add_user
\* returned True is in the file with the entry that call wrote
EntriesKept ==
    /\ auth.file.usernames["admin"] = InitialUsernames["admin"]
    /\ \A a \in auth.added : auth.file.usernames[a[1]] = a[2]

\* C27: add_user never changes or removes an existing user's entry of the
\* credentials file and adds the new user only, also when the add_user calls
\* of two admin sessions interleave: no added user is lost or overwritten.
C27_AddUserKeepsEntries == NoAddUserRunning => EntriesKept

\* what does hold: as long as no two calls have interleaved, every entry is kept
C27_SequentialAddUser ==
    (NoAddUserRunning /\ ~auth.overlapped) => EntriesKept

\* ---------------------------------------------------------------- sessions
\* what session t has: its UI list, its last response, and the tools and the
\* conversation_history of its server and chatbot
SessionView(t) ==
    LET st == sess.state[session_key(t)] IN
    [messages |-> st.messages,
     response |-> st.response,
     pc |-> st.pc,
     tools |-> IF st.mcp_server = 0 THEN <<>> ELSE sess.servers[st.mcp_server],
     conversation_history |->
         IF st.chatbot = 0 THEN <<>>
         ELSE sess.chatbots[st.chatbot].conversation_history]

\* C22: with two sessions running, each has its own tool registry and
\* conversation history: a step of the script of one session never changes
\* the other session's conversation_history, registered tools, UI list or
\* responses.
C22_SessionsIsolated ==
    [][\A s \in Sessions, t \in Sessions :
          (sess'.last.session = s /\ t # s) => SessionView(t)' = SessionView(t)]_vars

\* session 1 has finished an exchange while a run of session 2 is in flight,
\* and the two hold different objects and different histories
C22_Witness ==
    /\ SessionView(1).pc = "idle" /\ Len(SessionView(1).conversation_history) = 2
    /\ SessionView(2).pc = "running" /\ Len(SessionView(2).conversation_history) = 1
    /\ sess.state[1].chatbot # sess.state[2].chatbot
    /\ sess.state[1].mcp_server # sess.state[2].mcp_server

\* C29: a prompt submitted while an API key is missing or while the chatbot
\* is not initialised is rejected with no state change: the UI lists, the
\* servers and the chatbots with their histories are as before and no run is
\* started, so no oracle or search call is made; a prompt is accepted only
\* with both keys and a chatbot.
C29_RejectedWithoutChange ==
    [][/\ (sess'.last.event = "rejected") =>
              /\ sess'.state = sess.state
              /\ sess'.servers = sess.servers
              /\ sess'.chatbots = sess.chatbots
       /\ (sess'.last.event = "accepted" /\ sess' # sess) =>
              /\ sess.serper_api_key /\ sess.openai_api_key
              /\ sess.state[session_key(sess'.last.session)].chatbot # 0]_vars

\* a prompt was rejected with both keys present, after a failed initialization
C29_Witness ==
    /\ sess.last.event = "rejected"
    /\ sess.serper_api_key /\ sess.openai_api_key
    /\ sess.state[session_key(sess.last.session)].chatbot = 0
    /\ sess.state[session_key(sess.last.session)].messages = <<>>
====
